---- MODULE Spec2Model ----
(***************************************************************************)
(* Model of scripts/clear_qdrant_collections.py: the QdrantCleaner class   *)
(* and main().  The program is a sequential script; every step of the      *)
(* model is one blocking interaction (an HTTP request or the console       *)
(* prompt) together with the code that runs up to the next interaction.    *)
(* The Qdrant server is the environment: it holds a set of collections,    *)
(* answers every request with one of the responses the wire protocol (or   *)
(* a failure of it) can produce, and other clients may create collections  *)
(* while the script runs.                                                  *)
(***************************************************************************)
EXTENDS Integers, Sequences, FiniteSets, TLC

(***************************************************************************)
(* Bounds of the model.                                                    *)
(***************************************************************************)
\* number of collection names the server can hold
MaxCols == 2
\* number of collections other clients create during one run
MaxCreates == 1

AllNames == <<"docs", "images", "tmp", "logs">>
Names == {AllNames[k] : k \in 1..MaxCols}

Range(s) == {s[k] : k \in DOMAIN s}

(***************************************************************************)
(* Python dictionaries are functions with a finite domain of keys;         *)
(* dict.get(key, default) is Get.                                          *)
(***************************************************************************)
EmptyDict == [k \in {} |-> 0]
Get(d, k, default) == IF k \in DOMAIN d THEN d[k] ELSE default

(***************************************************************************)
(* Strings that the code inspects character by character (the title of     *)
(* the root document) are sequences of one-character strings.              *)
(***************************************************************************)
Upper == <<"Q", "D", "R", "A", "N", "T", "E", "I", "S">>
Lower == <<"q", "d", "r", "a", "n", "t", "e", "i", "s">>

\* str.lower() on one character
LowerChar(c) ==
    IF \E k \in DOMAIN Upper : Upper[k] = c
    THEN Lower[CHOOSE k \in DOMAIN Upper : Upper[k] = c]
    ELSE c

\* str.lower()
lower(s) == [k \in DOMAIN s |-> LowerChar(s[k])]

\* the Python operator  sub in s  on strings
Contains(sub, s) ==
    \E k \in 0..(Len(s) - Len(sub)) : SubSeq(s, k + 1, k + Len(sub)) = sub

\* the marker verify_server looks for
Marker == <<"q", "d", "r", "a", "n", "t">>

(***************************************************************************)
(* Responses of the server.  status is "neterr" when no response arrives   *)
(* (connection refused, timeout, ...), "httperr" when raise_for_status()   *)
(* raises, "ok" otherwise; json is FALSE when the body is not JSON.        *)
(***************************************************************************)
NetErr == [status |-> "neterr"]
HttpErr == [status |-> "httperr"]
NotJson == [status |-> "ok", json |-> FALSE]
Json(body) == [status |-> "ok", json |-> TRUE, body |-> body]

Titles ==
    { <<"q", "d", "r", "a", "n", "t">>,
      <<"Q", "d", "r", "a", "n", "t", "-", "d", "b">>,
      <<"q", "d", "r", "a", "n">>,
      <<"r", "e", "d", "i", "s">>,
      <<>> }

\* bodies of GET / : with a title string, with a title that is not a
\* string (JSON null), without title
RootResponses ==
    {NetErr, HttpErr, NotJson}
        \cup {Json([title |-> [str |-> TRUE, chars |-> t]]) : t \in Titles}
        \cup {Json([title |-> [str |-> FALSE]]), Json([version |-> 1])}

\* every order in which the server can list the set S of collections
Listings(S) ==
    {s \in [1..Cardinality(S) -> S] : Range(s) = S}

\* bodies of GET /collections while the server holds S
ListResponses(S) ==
    {NetErr, HttpErr, NotJson}
        \cup {Json([result |->
                     [collections |-> [k \in DOMAIN s |-> [name |-> s[k]]]]])
                : s \in Listings(S)}
        \cup {Json([status |-> "ok"]), Json([result |-> EmptyDict])}

\* bodies of GET /collections/{name}
InfoResponses ==
    {NetErr, HttpErr, NotJson}
        \cup {Json([result |-> r]) :
                r \in { [points_count |-> 100,
                         config |-> [params |-> [vectors |-> [size |-> 384]]]],
                        [points_count |-> 250,
                         config |-> [params |-> [vectors |-> [size |-> 4]]]],
                        [points_count |-> 1500,
                         config |-> [params |-> [vectors |->
                                       [image |-> [size |-> 512]]]]],
                        [config |-> [params |-> EmptyDict]],
                        [points_count |-> 0] }}
        \cup {Json([status |-> "ok"])}

\* outcomes of DELETE /collections/{name}
DeleteResponses == {NetErr, HttpErr, [status |-> "ok"]}

\* what input() yields: a line of text, or EOFError on a closed stdin
Inputs ==
    {[eof |-> FALSE, text |-> t, read |-> TRUE] :
        t \in {"DELETE ALL", "", "delete all", "DELETE ALL ", "y"}}
        \cup {[eof |-> TRUE, text |-> "", read |-> TRUE]}

(***************************************************************************)
(* State.                                                                  *)
(***************************************************************************)
VARIABLES
    pc,             \* position of the script
    force,          \* args.force
    server,         \* the collections the server holds
    created,        \* number of collections other clients created
    late,           \* collections created after the listing was answered
    rootResp,       \* the response to GET /, once received
    listResp,       \* the response to GET /collections, once received
    collections,    \* local of clear_all_collections
    info_i,         \* collections[info_i] is the next one to display
    total_points,   \* local of clear_all_collections
    confirmation,   \* what input() returned
    del_i,          \* collections[del_i] is the next one to delete
    success_count,  \* local of clear_all_collections
    reqs,           \* the requests issued so far, with their outcome
    out,            \* the lines printed so far
    exit_code       \* exit status of the process, NoExit while it runs

vars == <<pc, force, server, created, late, rootResp, listResp, collections,
          info_i, total_points, confirmation, del_i, success_count, reqs,
          out, exit_code>>

NoExit == 0 - 1
NoResp == [status |-> "none"]
NoInput == [eof |-> FALSE, text |-> "", read |-> FALSE]

\* one printed line: the text of the message and its formatted arguments
Line(msg, arg) == [msg |-> msg, arg |-> arg]
\* one issued request and whether it succeeded in the eyes of its caller
Req(kind, name, ok) == [kind |-> kind, name |-> name, ok |-> ok]

(***************************************************************************)
(* Formatting of printed values.                                           *)
(***************************************************************************)
\* three digits, zero padded: a group after a thousands separator
Pad3(n) ==
    IF n < 10 THEN "00" \o ToString(n)
    ELSE IF n < 100 THEN "0" \o ToString(n)
    ELSE ToString(n)

\* the format specification  {n:,}
RECURSIVE FmtThousands(_)
FmtThousands(n) ==
    IF n < 1000 THEN ToString(n)
    ELSE FmtThousands(n \div 1000) \o "," \o Pad3(n % 1000)

(***************************************************************************)
(* The methods of QdrantCleaner, as functions of the response they get.    *)
(* ret is what the caller sees: a returned value, "exit" for sys.exit(1),  *)
(* "raise" for an exception no handler of the script catches.  jsonCaught  *)
(* tells whether the installed requests library raises a                   *)
(* RequestException when response.json() cannot decode the body (it does   *)
(* from 2.27 on; older releases raise a plain ValueError).                 *)
(***************************************************************************)
\* verify_server with  or  in place of  and  in the test of the title
verify_server_or(resp, jsonCaught) ==
    IF resp.status # "ok" \/ (~resp.json /\ jsonCaught)
    THEN [ret |-> "false", out |-> <<Line("cannot connect", "")>>]
    ELSE IF ~resp.json
    THEN [ret |-> "raise", out |-> <<>>]
    ELSE IF "title" \in DOMAIN resp.body
    THEN [ret |-> "true", out |-> <<>>]
    ELSE [ret |-> "raise", out |-> <<>>]

verify_server(resp, jsonCaught) ==
    IF resp.status # "ok" \/ (~resp.json /\ jsonCaught)
    THEN [ret |-> "false", out |-> <<Line("cannot connect", "")>>]
    ELSE IF ~resp.json
    THEN [ret |-> "raise", out |-> <<>>]
    ELSE IF "title" \notin DOMAIN resp.body
    THEN [ret |-> "false", out |-> <<Line("not qdrant", "")>>]
    ELSE IF ~resp.body["title"].str
    THEN [ret |-> "raise", out |-> <<>>]
    ELSE IF Contains(Marker, lower(resp.body["title"].chars))
    THEN [ret |-> "true", out |-> <<>>]
    ELSE [ret |-> "false", out |-> <<Line("not qdrant", "")>>]

\* get_collections returning an empty list where it should exit
get_collections_swallow(resp, jsonCaught) ==
    IF resp.status # "ok" \/ (~resp.json /\ jsonCaught)
    THEN [ret |-> "return", value |-> <<>>,
          out |-> <<Line("failed to get collections", "")>>]
    ELSE IF ~resp.json
    THEN [ret |-> "raise", value |-> <<>>, out |-> <<>>]
    ELSE LET cols == Get(Get(resp.body, "result", EmptyDict),
                         "collections", <<>>)
         IN  [ret |-> "return",
              value |-> [k \in DOMAIN cols |-> cols[k]["name"]],
              out |-> <<>>]

get_collections(resp, jsonCaught) ==
    IF resp.status # "ok" \/ (~resp.json /\ jsonCaught)
    THEN [ret |-> "exit", value |-> <<>>,
          out |-> <<Line("failed to get collections", "")>>]
    ELSE IF ~resp.json
    THEN [ret |-> "raise", value |-> <<>>, out |-> <<>>]
    ELSE LET cols == Get(Get(resp.body, "result", EmptyDict),
                         "collections", <<>>)
         IN  [ret |-> "return",
              value |-> [k \in DOMAIN cols |-> cols[k]["name"]],
              out |-> <<>>]

\* delete_collection without the print in its handler
delete_collection_quiet(collection_name, resp) ==
    [ret |-> resp.status = "ok", out |-> <<>>]

delete_collection(collection_name, resp) ==
    IF resp.status = "ok"
    THEN [ret |-> TRUE, out |-> <<>>]
    ELSE [ret |-> FALSE,
          out |-> <<Line("failed to delete collection", collection_name)>>]

get_collection_info(resp) ==
    IF resp.status = "ok" /\ resp.json
    THEN Get(resp.body, "result", EmptyDict)
    ELSE EmptyDict

\* point_count with a marker as default
point_count_marker(info) == Get(info, "points_count", 0 - 1)

\* info.get("points_count", 0)
point_count(info) == Get(info, "points_count", 0)

\* info.get('config', {}).get('params', {}).get('vectors', {})
\*     .get('size', 'unknown'), as the f-string prints it
vector_size(info) ==
    LET vectors == Get(Get(Get(info, "config", EmptyDict),
                           "params", EmptyDict), "vectors", EmptyDict)
    IN  IF "size" \in DOMAIN vectors
        THEN ToString(vectors["size"])
        ELSE "unknown"

\* the test  collections is None
NoCollections_none(cols) == FALSE

\* the test  not collections  for an empty listing
NoCollections(cols) == cols = <<>>

\* the test of the confirmation phrase after stripping blanks
Confirmed_stripped(text) == text \in {"DELETE ALL", "DELETE ALL "}

\* the test of the confirmation phrase
Confirmed(text) == text = "DELETE ALL"

\* the prompt regardless of --force
NeedsConfirmation_always(f) == TRUE

\* the prompt is skipped under --force
NeedsConfirmation(f) == ~f

\* the loop working on what the server holds now
col_name_live(cols, k) ==
    IF late # {} THEN CHOOSE n \in late : TRUE ELSE cols[k]

\* the collection the k-th iteration of a loop over cols works on
col_name(cols, k) == cols[k]

\* the closing line of the summary, testing for any success
SummaryLine_any(count, total) ==
    IF count > 0
    THEN Line("all collections successfully deleted", "")
    ELSE Line("some collections failed to delete", "")

\* the closing line of the summary
SummaryLine(count, total) ==
    IF count = total
    THEN Line("all collections successfully deleted", "")
    ELSE Line("some collections failed to delete", "")

\* an uncaught exception: the interpreter prints a traceback and exits 1
Traceback == Line("Traceback", "")

(***************************************************************************)
(* Initial state: the arguments are parsed, the cleaner is constructed,    *)
(* nothing has been requested or printed.                                  *)
(***************************************************************************)
Init ==
    /\ pc = "main"
    /\ force \in BOOLEAN
    /\ server \in SUBSET Names
    /\ created = 0
    /\ late = {}
    /\ rootResp = NoResp
    /\ listResp = NoResp
    /\ collections = <<>>
    /\ info_i = 1
    /\ total_points = 0
    /\ confirmation = NoInput
    /\ del_i = 1
    /\ success_count = 0
    /\ reqs = <<>>
    /\ out = <<>>
    /\ exit_code = NoExit

(***************************************************************************)
(* main() up to the call of clear_all_collections.                         *)
(***************************************************************************)
VerifyServer ==
    /\ pc = "main"
    /\ \E resp \in RootResponses, jsonCaught \in BOOLEAN :
        LET v == verify_server(resp, jsonCaught) IN
        /\ rootResp' = resp
        /\ reqs' = Append(reqs, Req("root", "", v.ret = "true"))
        /\ out' = out \o <<Line("verifying connection", "")>> \o v.out \o
                  (IF v.ret = "true" THEN <<Line("connected", "")>>
                   ELSE IF v.ret = "raise" THEN <<Traceback>>
                   ELSE <<>>)
        /\ pc' = IF v.ret = "true" THEN "clear" ELSE "exited"
        /\ exit_code' = IF v.ret = "true" THEN NoExit ELSE 1
    /\ UNCHANGED <<force, server, created, late, listResp, collections,
                   info_i, total_points, confirmation, del_i, success_count>>

(***************************************************************************)
(* clear_all_collections: the listing and the test for an empty server.    *)
(***************************************************************************)
GetCollections ==
    /\ pc = "clear"
    /\ \E resp \in ListResponses(server), jsonCaught \in BOOLEAN :
        LET g == get_collections(resp, jsonCaught) IN
        /\ listResp' = resp
        /\ reqs' = Append(reqs, Req("list", "", g.ret = "return"))
        /\ collections' = g.value
        /\ out' = out \o <<Line("connecting", "")>> \o g.out \o
                  (IF g.ret = "raise" THEN <<Traceback>>
                   ELSE IF g.ret = "exit" THEN <<>>
                   ELSE IF NoCollections(g.value)
                   THEN <<Line("already empty", "")>>
                   ELSE <<Line("found", ToString(Len(g.value)))>>)
        /\ pc' = IF g.ret = "return" /\ ~NoCollections(g.value)
                 THEN "info" ELSE "exited"
        /\ exit_code' = IF g.ret # "return" THEN 1
                        ELSE IF NoCollections(g.value) THEN 0 ELSE NoExit
    /\ total_points' = 0
    /\ UNCHANGED <<force, server, created, late, rootResp, info_i,
                   confirmation, del_i, success_count>>

(***************************************************************************)
(* clear_all_collections: one iteration of the display loop; after the     *)
(* last one, the total and the branch on force.                            *)
(***************************************************************************)
GetCollectionInfo ==
    /\ pc = "info"
    /\ info_i <= Len(collections)
    /\ \E resp \in InfoResponses :
        LET name == col_name(collections, info_i)
            info == get_collection_info(resp)
            last == info_i = Len(collections)
            total == total_points + point_count(info)
        IN
        /\ reqs' = Append(reqs, Req("info", name,
                                    resp.status = "ok" /\ resp.json))
        /\ total_points' = total
        /\ out' = out \o
                  << Line("collection", name),
                     Line("points", FmtThousands(point_count(info))),
                     Line("vector size", vector_size(info)) >> \o
                  (IF ~last THEN <<>>
                   ELSE <<Line("total points", FmtThousands(total))>> \o
                        (IF NeedsConfirmation(force)
                         THEN <<Line("warning", "")>>
                         ELSE <<Line("deleting collections", "")>>))
        /\ pc' = IF ~last THEN "info"
                 ELSE IF NeedsConfirmation(force) THEN "confirm"
                 ELSE "delete"
    /\ info_i' = info_i + 1
    /\ success_count' = 0
    /\ UNCHANGED <<force, server, created, late, rootResp, listResp,
                   collections, confirmation, del_i, exit_code>>

(***************************************************************************)
(* clear_all_collections: the confirmation prompt.                         *)
(***************************************************************************)
Confirm ==
    /\ pc = "confirm"
    /\ \E inp \in Inputs :
        /\ confirmation' = inp
        /\ out' = out \o
                  (IF inp.eof THEN <<Traceback>>
                   ELSE IF ~Confirmed(inp.text)
                   THEN <<Line("deletion cancelled", "")>>
                   ELSE <<Line("deleting collections", "")>>)
        /\ pc' = IF ~inp.eof /\ Confirmed(inp.text)
                 THEN "delete" ELSE "exited"
        /\ exit_code' = IF inp.eof THEN 1
                        ELSE IF ~Confirmed(inp.text) THEN 0
                        ELSE NoExit
    /\ success_count' = 0
    /\ UNCHANGED <<force, server, created, late, rootResp, listResp,
                   collections, info_i, total_points, del_i, reqs>>

(***************************************************************************)
(* The deletion loop with a delete_collection that lets the exception of   *)
(* a failed request escape.                                                *)
(***************************************************************************)
DeleteCollection_abort ==
    /\ pc = "delete"
    /\ del_i <= Len(collections)
    /\ \E resp \in DeleteResponses :
        LET name == col_name(collections, del_i)
            d == delete_collection(name, resp)
            last == del_i = Len(collections)
            count == IF d.ret THEN success_count + 1 ELSE success_count
        IN
        /\ reqs' = Append(reqs, Req("delete", name, d.ret))
        /\ server' = IF resp.status = "ok" THEN server \ {name} ELSE server
        /\ late' = IF resp.status = "ok" THEN late \ {name} ELSE late
        /\ success_count' = count
        /\ out' = out \o <<Line("deleting", name)>> \o
                  (IF ~d.ret THEN <<Traceback>>
                   ELSE <<Line("deleted", "")>> \o
                        (IF ~last THEN <<>>
                         ELSE << Line("summary", ""),
                                 Line("collections deleted",
                                      ToString(count) \o "/" \o
                                          ToString(Len(collections))),
                                 SummaryLine(count, Len(collections)) >>))
        /\ pc' = IF last \/ ~d.ret THEN "exited" ELSE "delete"
        /\ exit_code' = IF ~d.ret THEN 1 ELSE IF last THEN 0 ELSE NoExit
    /\ del_i' = del_i + 1
    /\ UNCHANGED <<force, created, rootResp, listResp, collections, info_i,
                   total_points, confirmation>>

(***************************************************************************)
(* clear_all_collections: one iteration of the deletion loop; after the    *)
(* last one, the summary and the return to main.                           *)
(***************************************************************************)
DeleteCollection ==
    /\ pc = "delete"
    /\ del_i <= Len(collections)
    /\ \E resp \in DeleteResponses :
        LET name == col_name(collections, del_i)
            d == delete_collection(name, resp)
            last == del_i = Len(collections)
            count == IF d.ret THEN success_count + 1 ELSE success_count
        IN
        /\ reqs' = Append(reqs, Req("delete", name, d.ret))
        /\ server' = IF resp.status = "ok" THEN server \ {name} ELSE server
        /\ late' = IF resp.status = "ok" THEN late \ {name} ELSE late
        /\ success_count' = count
        /\ out' = out \o <<Line("deleting", name)>> \o d.out \o
                  <<Line(IF d.ret THEN "deleted" ELSE "not deleted", "")>> \o
                  (IF ~last THEN <<>>
                   ELSE << Line("summary", ""),
                           Line("collections deleted",
                                ToString(count) \o "/" \o
                                    ToString(Len(collections))),
                           SummaryLine(count, Len(collections)) >>)
        /\ pc' = IF last THEN "exited" ELSE "delete"
        /\ exit_code' = IF last THEN 0 ELSE NoExit
    /\ del_i' = del_i + 1
    /\ UNCHANGED <<force, created, rootResp, listResp, collections, info_i,
                   total_points, confirmation>>

(***************************************************************************)
(* Another client of the server creates a collection while the script      *)
(* runs.                                                                   *)
(***************************************************************************)
ServerCreate ==
    /\ pc # "exited"
    /\ created < MaxCreates
    /\ \E n \in Names \ server :
        /\ server' = server \cup {n}
        /\ late' = IF pc \in {"main", "clear"} THEN late ELSE late \cup {n}
    /\ created' = created + 1
    /\ UNCHANGED <<pc, force, rootResp, listResp, collections, info_i,
                   total_points, confirmation, del_i, success_count, reqs,
                   out, exit_code>>

Next ==
    \/ VerifyServer
    \/ GetCollections
    \/ GetCollectionInfo
    \/ Confirm
    \/ DeleteCollection
    \/ ServerCreate

Spec == Init /\ [][Next]_vars

\* the script is never suspended for ever: every request and the prompt
\* return (the specification of the claims about termination)
Script ==
    VerifyServer \/ GetCollections \/ GetCollectionInfo \/ Confirm
        \/ DeleteCollection

FairSpec == Spec /\ WF_vars(Script)

TypeOK ==
    /\ pc \in {"main", "clear", "info", "confirm", "delete", "exited"}
    /\ force \in BOOLEAN
    /\ server \subseteq Names
    /\ late \subseteq server
    /\ created \in 0..MaxCreates
    /\ collections \in Seq(Names)
    /\ info_i \in 1..(Len(collections) + 1)
    /\ del_i \in 1..(Len(collections) + 1)
    /\ total_points \in Nat
    /\ success_count \in 0..Len(collections)
    /\ exit_code \in {NoExit, 0, 1}
    /\ (pc = "exited") = (exit_code # NoExit)

(***************************************************************************)
(* Vocabulary of the properties.                                           *)
(***************************************************************************)
ReqsOf(kind) == SelectSeq(reqs, LAMBDA r : r.kind = kind)
FailedReqsOf(kind) == SelectSeq(reqs, LAMBDA r : r.kind = kind /\ ~r.ok)
DeleteTargets == [k \in DOMAIN ReqsOf("delete") |-> ReqsOf("delete")[k].name]
LinesOf(msg) == SelectSeq(out, LAMBDA l : l.msg = msg)
Printed(msg) == LinesOf(msg) # <<>>
IsPrefix(s, t) == Len(s) <= Len(t) /\ s = SubSeq(t, 1, Len(s))
ListingSucceeded == ReqsOf("list") # <<>> /\ ReqsOf("list")[1].ok
DeletionStarted == pc = "delete" \/ ReqsOf("delete") # <<>>
SummaryPrinted == Printed("summary")

\* the messages with which the script reports a failure
FailureMessages ==
    {"cannot connect", "not qdrant", "failed to get collections",
     "failed to delete collection"}
FailureLines == SelectSeq(out, LAMBDA l : l.msg \in FailureMessages)

\* a response to GET / that is well formed and whose title contains the
\* product marker, in any mix of upper and lower case
IdentityConfirmed(resp) ==
    /\ resp.status = "ok"
    /\ resp.json
    /\ "title" \in DOMAIN resp.body
    /\ resp.body["title"].str
    /\ LET t == resp.body["title"].chars IN
       \E k \in 0..(Len(t) - Len(Marker)) :
           \A j \in 1..Len(Marker) :
               t[k + j] = Marker[j]
                   \/ \E u \in DOMAIN Upper :
                          Upper[u] = t[k + j] /\ Lower[u] = Marker[j]

(***************************************************************************)
(* C1: whenever force is false and the text read from the confirmation     *)
(* prompt is not exactly DELETE ALL, no delete request has been issued,    *)
(* the cancellation message is printed and the process has exited with     *)
(* status 0.                                                               *)
(***************************************************************************)
C1_DeclinedDeletesNothing ==
    (~force /\ confirmation.read /\ ~confirmation.eof
        /\ confirmation.text # "DELETE ALL")
    => /\ ReqsOf("delete") = <<>>
       /\ Printed("deletion cancelled")
       /\ pc = "exited"
       /\ exit_code = 0

C1_Witness ==
    /\ ~force
    /\ collections # <<>>
    /\ confirmation.read
    /\ confirmation.text = "DELETE ALL "
    /\ Printed("deletion cancelled")

(***************************************************************************)
(* C2: under force the prompt is never read, the delete requests issued    *)
(* so far are the first collections of the listing in listing order, and   *)
(* once the run over a non-empty listing has ended they are the whole      *)
(* listing, each collection once.                                          *)
(***************************************************************************)
C2_ForcedDeletesAllInOrder ==
    force =>
        /\ ~confirmation.read
        /\ ~Printed("warning")
        /\ DeleteTargets = SubSeq(collections, 1, del_i - 1)
        /\ (pc = "exited" /\ collections # <<>>)
               => DeleteTargets = collections

C2_Witness ==
    /\ force
    /\ pc = "exited"
    /\ Len(collections) = 2
    /\ DeleteTargets = collections
    /\ collections[1] = "images"

(***************************************************************************)
(* C3: once the identity check has been answered with anything but a       *)
(* well-formed response whose title contains the marker, the process has   *)
(* exited with a non-zero status and the identity check is the only        *)
(* request ever issued.                                                    *)
(***************************************************************************)
C3_IdentityFailureStopsEverything ==
    (rootResp # NoResp /\ ~IdentityConfirmed(rootResp))
    => /\ pc = "exited"
       /\ exit_code # 0
       /\ exit_code # NoExit
       /\ Len(reqs) = 1
       /\ reqs[1].kind = "root"

C3_Witness ==
    /\ rootResp # NoResp
    /\ rootResp.status = "ok"
    /\ rootResp.json
    /\ "title" \in DOMAIN rootResp.body
    /\ rootResp.body["title"].str
    /\ ~IdentityConfirmed(rootResp)
    /\ exit_code = 1

(***************************************************************************)
(* C4: when the listing succeeds with zero collections, no info request    *)
(* and no delete request is issued, the prompt is not read, the already    *)
(* empty message is printed and the process exits with status 0, for       *)
(* either value of force.                                                  *)
(***************************************************************************)
C4_EmptyListingIsNoOp ==
    (ListingSucceeded /\ collections = <<>>)
    => /\ ReqsOf("info") = <<>>
       /\ ReqsOf("delete") = <<>>
       /\ ~confirmation.read
       /\ Printed("already empty")
       /\ ~Printed("found")
       /\ pc = "exited"
       /\ exit_code = 0

C4_Witness ==
    /\ ListingSucceeded
    /\ collections = <<>>
    /\ ~force
    /\ Printed("already empty")

(***************************************************************************)
(* C5: once deletion has started, the process never exits with a non-zero  *)
(* status, no collection is asked to be deleted twice, the run ends, and   *)
(* when it has ended a delete request was issued for every listed          *)
(* collection, the summary is printed and the exit status is 0, whatever   *)
(* the outcomes of the delete requests.                                    *)
(***************************************************************************)
C5_DeletionFailureNeverAborts ==
    /\ [](DeletionStarted =>
            /\ exit_code # 1
            /\ IsPrefix(DeleteTargets, collections)
            /\ pc = "exited" =>
                   /\ DeleteTargets = collections
                   /\ SummaryPrinted
                   /\ exit_code = 0)
    /\ (DeletionStarted ~> (pc = "exited" /\ SummaryPrinted))

C5_Witness ==
    /\ pc = "exited"
    /\ Len(collections) = 2
    /\ Len(ReqsOf("delete")) = 2
    /\ ~ReqsOf("delete")[1].ok
    /\ SummaryPrinted
    /\ exit_code = 0

(***************************************************************************)
(* C6: once the listing request has failed, the process has exited with a  *)
(* non-zero status, no info request and no delete request was issued and   *)
(* the prompt was not read; after a network or HTTP failure the            *)
(* diagnostic of get_collections is printed.                               *)
(***************************************************************************)
C6_ListingFailureIsFatal ==
    /\ (ReqsOf("list") # <<>> /\ ~ListingSucceeded)
       => /\ pc = "exited"
          /\ exit_code = 1
          /\ ReqsOf("info") = <<>>
          /\ ReqsOf("delete") = <<>>
          /\ ~confirmation.read
          /\ reqs[Len(reqs)].kind = "list"
    /\ listResp.status \in {"neterr", "httperr"}
       => /\ ~ListingSucceeded
          /\ Printed("failed to get collections")

C6_Witness ==
    /\ listResp.status = "httperr"
    /\ server # {}
    /\ Printed("failed to get collections")
    /\ exit_code = 1

(***************************************************************************)
(* C7: the step in which an info request fails prints the collection with  *)
(* 0 points and vector size unknown, leaves the total unchanged, and       *)
(* leaves the script running at the next collection, at the prompt or at   *)
(* the deletion loop.                                                      *)
(***************************************************************************)
InfoFailedInStep ==
    /\ Len(reqs') = Len(reqs) + 1
    /\ reqs'[Len(reqs')].kind = "info"
    /\ ~reqs'[Len(reqs')].ok

C7_InfoFailureShowsDefaults ==
    [][InfoFailedInStep =>
         /\ SubSeq(out', Len(out) + 1, Len(out) + 3) =
                << Line("collection", reqs'[Len(reqs')].name),
                   Line("points", "0"),
                   Line("vector size", "unknown") >>
         /\ total_points' = total_points
         /\ exit_code' = NoExit
         /\ pc' = IF info_i < Len(collections) THEN "info"
                  ELSE IF force THEN "delete" ELSE "confirm"
         /\ info_i' = info_i + 1]_vars

C7_Witness ==
    /\ Len(ReqsOf("info")) = 2
    /\ ~ReqsOf("info")[1].ok
    /\ ReqsOf("info")[2].ok
    /\ total_points = 250
    /\ pc = "exited"
    /\ SummaryPrinted

(***************************************************************************)
(* C8, as claimed: every failed request of the four kinds has its failure  *)
(* message printed by the time the decision that follows it is taken.      *)
(* Stated in its most lenient form: the traceback of an exception that     *)
(* escapes the script is counted as a failure message too, so that at      *)
(* every moment there are at least as many failure reports as failed       *)
(* requests.                                                               *)
(***************************************************************************)
C8_EveryFailurePrintsMessage ==
    Len(FailureLines) + Len(LinesOf("Traceback")) >=
        Len(FailedReqsOf("root")) + Len(FailedReqsOf("list"))
            + Len(FailedReqsOf("info")) + Len(FailedReqsOf("delete"))

(***************************************************************************)
(* C8, amended: a network or HTTP failure of the identity check, of the    *)
(* listing or of a deletion has its failure message printed by the time    *)
(* the decision that follows it is taken (for a deletion, before the       *)
(* failure mark of that collection), and so has every other failure of     *)
(* the identity check or the listing that does not escape as an            *)
(* exception; a failed info request prints no failure message at all.      *)
(***************************************************************************)
C8_CaughtFailuresPrintMessage ==
    /\ rootResp.status \in {"neterr", "httperr"}
           => Len(LinesOf("cannot connect")) = 1
    /\ (FailedReqsOf("root") # <<>> /\ ~Printed("Traceback"))
           => Len(LinesOf("cannot connect")) + Len(LinesOf("not qdrant")) = 1
    /\ listResp.status \in {"neterr", "httperr"}
           => Len(LinesOf("failed to get collections")) = 1
    /\ (FailedReqsOf("list") # <<>> /\ ~Printed("Traceback"))
           => Len(LinesOf("failed to get collections")) = 1
    /\ LET failed == FailedReqsOf("delete")
           lines == LinesOf("failed to delete collection")
       IN  /\ Len(lines) = Len(failed)
           /\ \A k \in DOMAIN failed : lines[k].arg = failed[k].name
    /\ \A k \in DOMAIN out :
           out[k].msg = "not deleted" =>
               /\ k > 1
               /\ out[k - 1].msg = "failed to delete collection"
    /\ Len(FailureLines) <=
           Len(FailedReqsOf("root")) + Len(FailedReqsOf("list"))
               + Len(FailedReqsOf("delete"))

C8_Witness ==
    /\ FailedReqsOf("info") # <<>>
    /\ FailedReqsOf("delete") # <<>>
    /\ Len(FailureLines) = Len(FailedReqsOf("delete"))
    /\ pc = "exited"

(***************************************************************************)
(* C9: the success count never exceeds the number of delete requests       *)
(* issued, which never exceeds the number of listed collections, and it    *)
(* equals the number of delete requests that succeeded; the summary        *)
(* reports that count, with the all-deleted message exactly when it        *)
(* equals the number of listed collections and the partial-failure         *)
(* message otherwise.                                                      *)
(***************************************************************************)
C9_SuccessCountAndSummary ==
    /\ success_count <= Len(ReqsOf("delete"))
    /\ Len(ReqsOf("delete")) <= Len(collections)
    /\ success_count = Len(ReqsOf("delete")) - Len(FailedReqsOf("delete"))
    /\ (Printed("all collections successfully deleted")
            \/ Printed("some collections failed to delete"))
           => SummaryPrinted
    /\ SummaryPrinted =>
           /\ LinesOf("collections deleted") =
                  << Line("collections deleted",
                          ToString(success_count) \o "/" \o
                              ToString(Len(collections))) >>
           /\ Printed("all collections successfully deleted")
                  <=> success_count = Len(collections)
           /\ Printed("some collections failed to delete")
                  <=> success_count # Len(collections)

C9_Witness ==
    /\ SummaryPrinted
    /\ Len(collections) = 2
    /\ success_count = 1
    /\ Printed("some collections failed to delete")

(***************************************************************************)
(* C10: the listing is requested at most once, every delete request        *)
(* names a collection of that listing, no delete request is issued before  *)
(* the info request of every listed collection has returned, and no step   *)
(* removes a collection that was created after the listing was answered.   *)
(***************************************************************************)
C10_OnlyTheListingIsDeleted ==
    /\ [](/\ Len(ReqsOf("list")) <= 1
          /\ Range(DeleteTargets) \subseteq Range(collections)
          /\ DeletionStarted =>
                 /\ Len(ReqsOf("info")) = Len(collections)
                 /\ [k \in DOMAIN ReqsOf("info") |-> ReqsOf("info")[k].name]
                        = collections)
    /\ [][late \subseteq late' /\ late \subseteq server']_vars

C10_Witness ==
    /\ pc = "exited"
    /\ Printed("all collections successfully deleted")
    /\ late # {}
    /\ late \subseteq server

====
